---- MODULE Spec2Model ----
(***************************************************************************)
(* ChainGuard risk-scoring engine (src/engine.py).                         *)
(*                                                                         *)
(* One run of the script after a CSV upload: read_csv, to_datetime, the    *)
(* three groupby tables, df.apply(calculate_risk) row by row, and the      *)
(* assignment of the three result columns.                                 *)
(*                                                                         *)
(* Cells of the frame are tagged values, because pandas keeps Python       *)
(* values of different types in one column:                                *)
(*   [k |-> "num", v |-> n]   a number n                                   *)
(*   [k |-> "nan", v |-> 0]   NaN / NaT (an empty CSV cell)                *)
(*   [k |-> "str", v |-> n]   a Python str: the text of the number or hour  *)
(*                            n, or text that is neither when n = -1       *)
(*   [k |-> "ts",  v |-> h]   a Timestamp whose hour is h                  *)
(* Cells of the uploaded file are "num", "time", "empty" or "text".        *)
(* Amounts are integers and a mean is kept as the exact fraction num/den.  *)
(***************************************************************************)
EXTENDS Integers, Sequences, FiniteSets, TLC

\* ------------------------------------------------------------------ bounds
\* Largest number of data rows of an uploaded file.
MaxRows == 3

\* ------------------------------------------------------- program constants
HIGH_AMOUNT_THRESHOLD == 10000
MEDIUM_AMOUNT_THRESHOLD == 5000
NEW_WALLET_DAYS == 30

VARIABLES
    pc,               \* the statement the script run is at
    uploaded_file,    \* the rows of the uploaded CSV (<<>> before an upload)
    df,               \* the data frame
    tx_count,         \* dict: sender -> number of its rows
    avg_amount,       \* dict: sender -> mean amount of its rows
    incoming_counts,  \* dict: receiver -> number of its rows
    applied,          \* rows df.apply has produced so far
    results,          \* the three columns assigned to df, one record per row
    score,            \* calculate_risk's local score at its last return
    level,            \* calculate_risk's local level at its last return
    error             \* the exception that ended the run ("" if none)

vars == <<pc, uploaded_file, df, tx_count, avg_amount, incoming_counts,
          applied, results, score, level, error>>

\* ------------------------------------------------------------------- cells
Num(n) == [k |-> "num", v |-> n]
NaN == [k |-> "nan", v |-> 0]
Empty == [k |-> "empty", v |-> 0]
Text == [k |-> "text", v |-> 0]
Time(h) == [k |-> "time", v |-> h]

NoDict == [w \in {} |-> 0]

\* dict.get(key, 0) for the two count tables
Get(d, key) == IF key \in DOMAIN d THEN d[key] ELSE 0

\* dict.get(key, 0) for the table of means: 0 is the fraction 0/1
GetAvg(d, key) == IF key \in DOMAIN d THEN d[key] ELSE [num |-> 0, den |-> 1]

\* --------------------------------------------------------------- the input
Wallets == {"wA", "wB"}

\* Rows of well-formed files.  Amounts, ages and hours lie on either side of
\* their thresholds.
\* Every sender/receiver pair with a small and a high amount, for an old
\* wallet at daytime:
FlowRows ==
    { [sender |-> s, receiver |-> r, amount |-> Num(a),
       timestamp |-> Time(5), wallet_age_days |-> Num(30)] :
      s \in Wallets, r \in Wallets, a \in {100, 10001} }

\* an amount equal to the high threshold, for an old and for a new wallet:
BoundaryRows ==
    { [sender |-> "wA", receiver |-> "wB", amount |-> Num(10000),
       timestamp |-> Time(5), wallet_age_days |-> Num(g)] : g \in {29, 30} }

\* the new-wallet and night-time variants of a high transfer:
ProfileRows ==
    { [sender |-> "wA", receiver |-> "wB", amount |-> Num(10001),
       timestamp |-> Time(h), wallet_age_days |-> Num(g)] :
      h \in {4, 5}, g \in {29, 30} }

TypedRows == FlowRows \cup BoundaryRows \cup ProfileRows

\* Rows of files with missing or unparseable cells.
RawRows ==
    { [sender |-> "wA", receiver |-> "wB", amount |-> a,
       timestamp |-> Time(4), wallet_age_days |-> Num(29)] :
      a \in {Num(10001), Empty, Text} }
    \cup
    { [sender |-> "wA", receiver |-> "wB", amount |-> Num(100),
       timestamp |-> t, wallet_age_days |-> g] :
      t \in {Time(5), Empty, Text}, g \in {Num(30), Empty, Text} }

\* The files of at most MaxRows rows over a set of rows; tx_id is the row's
\* line number in the file.
RECURSIVE SeqsOf(_, _)
SeqsOf(S, n) ==
    IF n = 0 THEN {<<>>}
    ELSE LET shorter == SeqsOf(S, n - 1)
         IN shorter \cup { Append(q, x) : q \in { p \in shorter : Len(p) = n - 1 }, x \in S }

WithTxId(rows) ==
    [i \in 1..Len(rows) |->
        [tx_id |-> i, sender |-> rows[i].sender, receiver |-> rows[i].receiver,
         amount |-> rows[i].amount, timestamp |-> rows[i].timestamp,
         wallet_age_days |-> rows[i].wallet_age_days]]

Files(S) == { WithTxId(q) : q \in SeqsOf(S, MaxRows) }

\* -------------------------------------------------------------------- Init
Init ==
    /\ pc = "idle"
    /\ uploaded_file = <<>>
    /\ df = <<>>
    /\ tx_count = NoDict
    /\ avg_amount = NoDict
    /\ incoming_counts = NoDict
    /\ applied = <<>>
    /\ results = <<>>
    /\ score = 0
    /\ level = ""
    /\ error = ""

\* --------------------------------------------------- st.file_uploader (77)
Upload(files) ==
    /\ pc = "idle"
    /\ \E f \in files : uploaded_file' = f
    /\ pc' = "read_csv"
    /\ UNCHANGED <<df, tx_count, avg_amount, incoming_counts, applied, results,
                   score, level, error>>

\* ------------------------------------------------------- pd.read_csv (80)
\* A numeric column with a text cell is read as an object column: its
\* numbers stay text.  Empty cells are NaN either way.  The timestamp
\* column is text until to_datetime.
ColumnIsObject(rows, col) == \E i \in 1..Len(rows) : rows[i][col].k = "text"

ReadCell(cell, isObject) ==
    IF cell.k = "empty" THEN NaN
    ELSE IF cell.k = "text" THEN [k |-> "str", v |-> -1]
    ELSE IF isObject THEN [k |-> "str", v |-> cell.v]
    ELSE Num(cell.v)

read_csv(rows) ==
    [i \in 1..Len(rows) |->
        [tx_id |-> rows[i].tx_id, sender |-> rows[i].sender,
         receiver |-> rows[i].receiver,
         amount |-> ReadCell(rows[i].amount, ColumnIsObject(rows, "amount")),
         timestamp |-> ReadCell(rows[i].timestamp, TRUE),
         wallet_age_days |-> ReadCell(rows[i].wallet_age_days,
                                      ColumnIsObject(rows, "wallet_age_days"))]]

ReadCsv ==
    /\ pc = "read_csv"
    /\ df' = read_csv(uploaded_file)
    /\ pc' = "to_datetime"
    /\ UNCHANGED <<uploaded_file, tx_count, avg_amount, incoming_counts,
                   applied, results, score, level, error>>

\* ---------------------------------------------------- pd.to_datetime (81)
\* Raises on text that is no date; NaN becomes NaT.
Unparseable(rows) ==
    \E i \in 1..Len(rows) : rows[i].timestamp = [k |-> "str", v |-> -1]

to_datetime(cell) == IF cell.k = "str" THEN [k |-> "ts", v |-> cell.v] ELSE NaN

ToDatetime ==
    /\ pc = "to_datetime"
    /\ IF Unparseable(df)
       THEN /\ pc' = "error"
            /\ error' = "ValueError: timestamp"
            /\ df' = df
       ELSE /\ df' = [i \in 1..Len(df) |->
                        [df[i] EXCEPT !.timestamp = to_datetime(df[i].timestamp)]]
            /\ pc' = "tx_count"
            /\ error' = error
    /\ UNCHANGED <<uploaded_file, tx_count, avg_amount, incoming_counts,
                   applied, results, score, level>>

\* ------------------------------------------------ the three tables (86-88)
\* groupby(col): the keys are the values of col, in one pass over the rows.
RECURSIVE GroupCount(_, _, _)
GroupCount(rows, col, n) ==
    IF n = 0 THEN NoDict
    ELSE LET rest == GroupCount(rows, col, n - 1)
             key == rows[n][col]
         IN [w \in DOMAIN rest \cup {key} |->
                IF w = key THEN Get(rest, w) + 1 ELSE rest[w]]

\* the last row of the frame is left out of the count
MutGroupbyCount(rows, col) ==
    GroupCount(rows, col, IF Len(rows) > 0 THEN Len(rows) - 1 ELSE 0)

\* groupby(col)["tx_id"].count(): tx_id is never null in a file
groupby_count(rows, col) == GroupCount(rows, col, Len(rows))

\* groupby("sender")["amount"].mean(): NaN amounts are skipped; a sender
\* whose amounts are all NaN has den = 0 (the mean is NaN).
RECURSIVE GroupMean(_, _)
GroupMean(rows, n) ==
    IF n = 0 THEN NoDict
    ELSE LET rest == GroupMean(rows, n - 1)
             key == rows[n].sender
             old == IF key \in DOMAIN rest THEN rest[key] ELSE [num |-> 0, den |-> 0]
             new == IF rows[n].amount.k = "num"
                    THEN [num |-> old.num + rows[n].amount.v, den |-> old.den + 1]
                    ELSE old
         IN [w \in DOMAIN rest \cup {key} |-> IF w = key THEN new ELSE rest[w]]

groupby_mean(rows) == GroupMean(rows, Len(rows))

\* mean() of an object column raises
MeanRaises(rows) == \E i \in 1..Len(rows) : rows[i].amount.k = "str"

BuildTxCount ==
    /\ pc = "tx_count"
    /\ tx_count' = groupby_count(df, "sender")
    /\ pc' = "avg_amount"
    /\ UNCHANGED <<uploaded_file, df, avg_amount, incoming_counts, applied,
                   results, score, level, error>>

BuildAvgAmount ==
    /\ pc = "avg_amount"
    /\ IF MeanRaises(df)
       THEN /\ pc' = "error"
            /\ error' = "TypeError: amount"
            /\ avg_amount' = avg_amount
       ELSE /\ avg_amount' = groupby_mean(df)
            /\ pc' = "incoming_counts"
            /\ error' = error
    /\ UNCHANGED <<uploaded_file, df, tx_count, incoming_counts, applied,
                   results, score, level>>

BuildIncomingCounts ==
    /\ pc = "incoming_counts"
    /\ incoming_counts' = groupby_count(df, "receiver")
    /\ pc' = "apply"
    /\ UNCHANGED <<uploaded_file, df, tx_count, avg_amount, applied, results,
                   score, level, error>>

\* --------------------------------------------------- calculate_risk (93-131)
\* Comparisons with NaN are False.
Gt(cell, n) == cell.k = "num" /\ cell.v > n
Lt(cell, n) == cell.k = "num" /\ cell.v < n

\* score -= points in place of score += points
MutFire(acc, points, name) ==
    [score |-> acc.score - points, rules |-> Append(acc.rules, name)]

\* score += points; rules.append(name)
Fire(acc, points, name) ==
    [score |-> acc.score + points, rules |-> Append(acc.rules, name)]

HighTransactionAmount(acc, row) ==
    IF Gt(row.amount, HIGH_AMOUNT_THRESHOLD)
    THEN Fire(acc, 30, "High Transaction Amount") ELSE acc

\* > 3 in place of >= 3
MutBurstTransactions(acc, row, txc) ==
    IF Get(txc, row.sender) > 3
    THEN Fire(acc, 20, "Burst Transactions") ELSE acc

BurstTransactions(acc, row, txc) ==
    IF Get(txc, row.sender) >= 3
    THEN Fire(acc, 20, "Burst Transactions") ELSE acc

NewWalletHighActivity(acc, row) ==
    IF Lt(row.wallet_age_days, NEW_WALLET_DAYS) /\ Gt(row.amount, MEDIUM_AMOUNT_THRESHOLD)
    THEN Fire(acc, 20, "New Wallet High Activity") ELSE acc

\* NaT.hour is NaN
UnusualTransactionTime(acc, row) ==
    IF row.timestamp.k = "ts" /\ 0 <= row.timestamp.v /\ row.timestamp.v <= 4
    THEN Fire(acc, 10, "Unusual Transaction Time") ELSE acc

\* the table is looked up by the row's receiver in place of its sender
MutOneWayMoneyFlow(acc, row, inc) ==
    IF Get(inc, row.receiver) = 0
    THEN Fire(acc, 10, "One-Way Money Flow") ELSE acc

OneWayMoneyFlow(acc, row, inc) ==
    IF Get(inc, row.sender) = 0
    THEN Fire(acc, 10, "One-Way Money Flow") ELSE acc

\* amount > avg in place of amount > 2 * avg
MutSuddenBehaviorChange(acc, row, avg) ==
    LET a == GetAvg(avg, row.sender)
    IN IF /\ a.den > 0
          /\ a.num > 0
          /\ row.amount.k = "num"
          /\ row.amount.v * a.den > a.num
       THEN Fire(acc, 10, "Sudden Behavior Change") ELSE acc

\* avg > 0 and amount > 2 * avg, with avg = num/den (NaN when den = 0)
SuddenBehaviorChange(acc, row, avg) ==
    LET a == GetAvg(avg, row.sender)
    IN IF /\ a.den > 0
          /\ a.num > 0
          /\ row.amount.k = "num"
          /\ row.amount.v * a.den > 2 * a.num
       THEN Fire(acc, 10, "Sudden Behavior Change") ELSE acc

\* min(score, 90)
MutClamp(s) == IF s < 90 THEN s ELSE 90

\* min(score, 100)
Clamp(s) == IF s < 100 THEN s ELSE 100

\* score < 30 in place of score <= 30
MutRiskLevel(s) == IF s < 30 THEN "Low" ELSE IF s <= 70 THEN "Medium" ELSE "High"

risk_level(s) == IF s <= 30 THEN "Low" ELSE IF s <= 70 THEN "Medium" ELSE "High"

\* ", ".join(rules)
RECURSIVE Join(_)
Join(rules) ==
    IF Len(rules) = 0 THEN ""
    ELSE IF Len(rules) = 1 THEN rules[1]
    ELSE rules[1] \o ", " \o Join(Tail(rules))

\* the rules list when the function reaches its return
RulesFired(row, txc, avg, inc) ==
    LET a0 == [score |-> 0, rules |-> <<>>]
        a1 == HighTransactionAmount(a0, row)
        a2 == BurstTransactions(a1, row, txc)
        a3 == NewWalletHighActivity(a2, row)
        a4 == UnusualTransactionTime(a3, row)
        a5 == OneWayMoneyFlow(a4, row, inc)
    IN SuddenBehaviorChange(a5, row, avg)

calculate_risk(row, txc, avg, inc) ==
    LET acc == RulesFired(row, txc, avg, inc)
        s == Clamp(acc.score)
    IN [risk_score |-> s, risk_level |-> risk_level(s),
        triggered_rules |-> Join(acc.rules)]

\* a str compared with a number raises TypeError (lines 97 and 105)
CompareRaises(row) == row.amount.k = "str" \/ row.wallet_age_days.k = "str"

\* ------------------------------------------------------ df.apply (133-135)
\* apply calls the function on the rows in index order and labels each
\* result with the row's index.
ApplyRow ==
    /\ pc = "apply"
    /\ Len(applied) < Len(df)
    /\ LET i == Len(applied) + 1
           out == calculate_risk(df[i], tx_count, avg_amount, incoming_counts)
       IN IF CompareRaises(df[i])
          THEN /\ pc' = "error"
               /\ error' = "TypeError: wallet_age_days"
               /\ applied' = <<>>
               /\ UNCHANGED <<score, level>>
          ELSE /\ applied' = Append(applied,
                                [index |-> i, risk_score |-> out.risk_score,
                                 risk_level |-> out.risk_level,
                                 triggered_rules |-> out.triggered_rules])
               /\ score' = out.risk_score
               /\ level' = out.risk_level
               /\ UNCHANGED <<pc, error>>
    /\ UNCHANGED <<uploaded_file, df, tx_count, avg_amount, incoming_counts, results>>

\* the columns are assigned in reverse order of the index
MutAssignColumns(frame, out) ==
    [i \in 1..Len(frame) |->
        LET r == CHOOSE o \in { out[j] : j \in 1..Len(out) } : o.index = Len(frame) + 1 - i
        IN [tx_id |-> frame[i].tx_id, risk_score |-> r.risk_score,
            risk_level |-> r.risk_level, triggered_rules |-> r.triggered_rules]]

\* df[[...]] = frame: the columns are aligned on the index
AssignColumns(frame, out) ==
    [i \in 1..Len(frame) |->
        LET r == CHOOSE o \in { out[j] : j \in 1..Len(out) } : o.index = i
        IN [tx_id |-> frame[i].tx_id, risk_score |-> r.risk_score,
            risk_level |-> r.risk_level, triggered_rules |-> r.triggered_rules]]

\* apply of a frame without rows returns a copy of the frame, with its six
\* columns: assigning it to three columns raises ValueError.
Assign ==
    /\ pc = "apply"
    /\ Len(applied) = Len(df)
    /\ IF Len(df) = 0
       THEN /\ pc' = "error"
            /\ error' = "ValueError: Columns must be same length as key"
            /\ results' = results
       ELSE /\ results' = AssignColumns(df, applied)
            /\ pc' = "done"
            /\ error' = error
    /\ UNCHANGED <<uploaded_file, df, tx_count, avg_amount, incoming_counts,
                   applied, score, level>>

\* the file is removed from the uploader: the script reruns without a file
ClearFile ==
    /\ pc \in {"done", "error"}
    /\ pc' = "idle"
    /\ uploaded_file' = <<>>
    /\ df' = <<>>
    /\ tx_count' = NoDict
    /\ avg_amount' = NoDict
    /\ incoming_counts' = NoDict
    /\ applied' = <<>>
    /\ results' = <<>>
    /\ score' = 0
    /\ level' = ""
    /\ error' = ""

Run ==
    \/ ReadCsv
    \/ ToDatetime
    \/ BuildTxCount
    \/ BuildAvgAmount
    \/ BuildIncomingCounts
    \/ ApplyRow
    \/ Assign
    \/ ClearFile

\* files whose cells are all well-formed
Next == Upload(Files(TypedRows)) \/ Run

Spec == Init /\ [][Next]_vars

\* files with missing and unparseable cells
NextRaw == Upload(Files(RawRows)) \/ Run

SpecRaw == Init /\ [][NextRaw]_vars

\* ------------------------------------------- the severity mapping on its own
\* calculate_risk at line 122, for every value the clamped score can take
InitLevel ==
    /\ pc = "level"
    /\ score \in 0..100
    /\ level = ""
    /\ uploaded_file = <<>>
    /\ df = <<>>
    /\ tx_count = NoDict
    /\ avg_amount = NoDict
    /\ incoming_counts = NoDict
    /\ applied = <<>>
    /\ results = <<>>
    /\ error = ""

\* lines 124-129
ClassifyLevel ==
    /\ pc = "level"
    /\ level' = risk_level(score)
    /\ pc' = "returned"
    /\ UNCHANGED <<uploaded_file, df, tx_count, avg_amount, incoming_counts,
                   applied, results, score, error>>

SpecLevel == (Init \/ InitLevel) /\ [][Next \/ ClassifyLevel]_vars

(***************************************************************************)
(* The specification's rule table and aggregates, stated over a batch b    *)
(* of well-formed rows.                                                    *)
(***************************************************************************)
RuleNames ==
    <<"High Transaction Amount", "Burst Transactions", "New Wallet High Activity",
      "Unusual Transaction Time", "One-Way Money Flow", "Sudden Behavior Change">>

RulePoints == <<30, 20, 20, 10, 10, 10>>

SentBy(b, w) == { j \in 1..Len(b) : b[j].sender = w }
ReceivedBy(b, w) == { j \in 1..Len(b) : b[j].receiver = w }

\* the sum of the amounts of the rows of b among the first n whose index is in S
RECURSIVE TotalAmountTo(_, _, _)
TotalAmountTo(b, S, n) ==
    IF n = 0 THEN 0
    ELSE (IF n \in S THEN b[n].amount.v ELSE 0) + TotalAmountTo(b, S, n - 1)

TotalAmount(b, S) == TotalAmountTo(b, S, Len(b))

\* rule k's condition for a row whose sender has n outgoing rows of the
\* given total amount and the given number of incoming rows
RuleCondition(k, row, n, total, incoming) ==
    CASE k = 1 -> row.amount.v > 10000
      [] k = 2 -> n >= 3
      [] k = 3 -> row.wallet_age_days.v < 30 /\ row.amount.v > 5000
      [] k = 4 -> row.timestamp.v \in 0..4
      [] k = 5 -> incoming = 0
      [] k = 6 -> total > 0 /\ row.amount.v * n > 2 * total

\* rule k's condition for row i of batch b
RuleHolds(k, b, i) ==
    RuleCondition(k, b[i], Cardinality(SentBy(b, b[i].sender)),
                  TotalAmount(b, SentBy(b, b[i].sender)),
                  Cardinality(ReceivedBy(b, b[i].sender)))

RECURSIVE SumPoints(_)
SumPoints(K) ==
    IF K = {} THEN 0
    ELSE LET k == CHOOSE x \in K : TRUE IN RulePoints[k] + SumPoints(K \ {k})

\* the names of the rules of K in table order
NamesOf(K) == SelectSeq(RuleNames, LAMBDA nm : \E k \in K : RuleNames[k] = nm)

RulesGiven(row, n, total, incoming) ==
    { k \in 1..6 : RuleCondition(k, row, n, total, incoming) }

\* the rules whose condition holds for row i of batch b
HoldingRules(b, i) ==
    RulesGiven(b[i], Cardinality(SentBy(b, b[i].sender)),
               TotalAmount(b, SentBy(b, b[i].sender)),
               Cardinality(ReceivedBy(b, b[i].sender)))

\* the displayed rule strings that name rule k
DisplaysOfRule ==
    [k \in 1..6 |-> { Join(NamesOf(K)) : K \in { M \in SUBSET (1..6) : k \in M } }]

Displays(k) == DisplaysOfRule[k]

\* every row df.apply has produced and every row assigned to the frame
Scored == { applied[j] : j \in 1..Len(applied) }
              \cup { [index |-> j, risk_score |-> results[j].risk_score,
                      risk_level |-> results[j].risk_level,
                      triggered_rules |-> results[j].triggered_rules] :
                     j \in 1..Len(results) }

\* C1: every risk_score that calculate_risk produces is an integer in 0..100.
C1_ScoreInRange ==
    /\ score \in 0..100
    /\ \A r \in Scored : r.risk_score \in 0..100

C1_Witness ==
    /\ pc = "done"
    /\ \E j \in 1..Len(results) :
          /\ results[j].risk_score = 100
          /\ results[j].triggered_rules = Join(RuleNames)

\* C2: each row's score is min(sum of the points of exactly the rules of the
\* table whose condition holds, 100) and its triggered_rules names exactly
\* those rules in table order.
C2_RuleTable ==
    \A r \in Scored :
        LET K == HoldingRules(df, r.index)
        IN /\ r.risk_score = (IF SumPoints(K) < 100 THEN SumPoints(K) ELSE 100)
           /\ r.triggered_rules = Join(NamesOf(K))

C2_Witness ==
    /\ pc = "done"
    /\ \E j \in 1..Len(results) :
          /\ HoldingRules(df, j) = {1, 3, 4, 5}
          /\ results[j].risk_score = 70
          /\ results[j].triggered_rules =
                "High Transaction Amount, New Wallet High Activity, Unusual Transaction Time, One-Way Money Flow"

\* C3: scores 0..30 are Low, 31..70 Medium and 71..100 High, for the level
\* of every scored row and for every score 0..100.
C3_LevelPartition ==
    LET Level(s) == CASE s \in 0..30 -> "Low"
                      [] s \in 31..70 -> "Medium"
                      [] s \in 71..100 -> "High"
    IN /\ pc = "returned" => level = Level(score)
       /\ \A r \in Scored : r.risk_level = Level(r.risk_score)

C3_Witness == pc = "returned" /\ score = 31 /\ level = "Medium"

\* C4: a completed run has one result per row of the file, and the i-th
\* result carries the i-th row's tx_id and that row's own score, level and
\* rules.
C4_OneResultPerRowInOrder ==
    pc = "done" =>
        /\ Len(results) = Len(uploaded_file)
        /\ \A i \in 1..Len(uploaded_file) :
              LET own == calculate_risk(df[i], tx_count, avg_amount, incoming_counts)
              IN /\ results[i].tx_id = uploaded_file[i].tx_id
                 /\ results[i].risk_score = own.risk_score
                 /\ results[i].risk_level = own.risk_level
                 /\ results[i].triggered_rules = own.triggered_rules

C4_Witness ==
    /\ pc = "done"
    /\ Len(results) = 3
    /\ results[1].risk_score # results[2].risk_score
    /\ results[2].risk_score # results[3].risk_score
    /\ results[1].risk_score # results[3].risk_score

\* the three tables of the whole batch b, as the specification defines them
OutgoingCountOf(b) == [w \in { b[j].sender : j \in 1..Len(b) } |-> Cardinality(SentBy(b, w))]

AverageAmountOf(b) ==
    [w \in { b[j].sender : j \in 1..Len(b) } |->
        [num |-> TotalAmount(b, SentBy(b, w)), den |-> Cardinality(SentBy(b, w))]]

IncomingCountOf(b) == [w \in { b[j].receiver : j \in 1..Len(b) } |-> Cardinality(ReceivedBy(b, w))]

TablesOfWholeBatch ==
    /\ tx_count = OutgoingCountOf(df)
    /\ avg_amount = AverageAmountOf(df)
    /\ incoming_counts = IncomingCountOf(df)

\* C5: from the first scored row on, the three tables are those of the whole
\* batch, every scored row was scored against them, and no step of the
\* scoring changes them.
C5_TablesFrozenBeforeScoring ==
    /\ [](pc \in {"apply", "done"} =>
            /\ TablesOfWholeBatch
            /\ \A r \in Scored :
                  r.risk_score = calculate_risk(df[r.index], OutgoingCountOf(df),
                                     AverageAmountOf(df), IncomingCountOf(df)).risk_score)
    /\ [][pc = "apply" => UNCHANGED <<tx_count, avg_amount, incoming_counts>>]_vars

\* the first row is scored as a burst because of the two rows after it
C5_Witness ==
    /\ pc = "apply"
    /\ Len(df) = 3
    /\ Len(applied) = 1
    /\ tx_count[df[1].sender] = 3
    /\ applied[1].triggered_rules \in Displays(2)

\* The batch with field f of row i set to v, and its scores.
Edit(b, i, f, v) == [b EXCEPT ![i][f] = v]

ScoresOf(b) ==
    LET txc == groupby_count(b, "sender")
        avg == groupby_mean(b)
        inc == groupby_count(b, "receiver")
    IN [j \in 1..Len(b) |-> calculate_risk(b[j], txc, avg, inc).risk_score]

FieldValues(f) ==
    CASE f = "sender" -> Wallets
      [] f = "receiver" -> Wallets
      [] f = "amount" -> { Num(a) : a \in {100, 10000, 10001} }
      [] f = "timestamp" -> { [k |-> "ts", v |-> h] : h \in {4, 5} }
      [] f = "wallet_age_days" -> { Num(g) : g \in {29, 30} }

Fields == {"sender", "receiver", "amount", "timestamp", "wallet_age_days"}

\* the rules that hold before an edit and not after it, or after and not before
Flipped(before, after) == (before \ after) \cup (after \ before)

Abs(n) == IF n < 0 THEN -n ELSE n

\* the tables' entries that row j's rules read are the same in b and c
SameAggregates(b, c, j) ==
    /\ Cardinality(SentBy(b, b[j].sender)) = Cardinality(SentBy(c, b[j].sender))
    /\ TotalAmount(b, SentBy(b, b[j].sender)) = TotalAmount(c, SentBy(c, b[j].sender))
    /\ Cardinality(ReceivedBy(b, b[j].sender)) = Cardinality(ReceivedBy(c, b[j].sender))

\* C6 as claimed: an edit of one field of one row that flips exactly one of
\* that row's rules changes that row's score by the rule's points and no
\* other row's score.
C6_RuleIndependence ==
    pc = "done" =>
        \A i \in 1..Len(df) : \A held \in {HoldingRules(df, i)} :
            \A f \in Fields : \A v \in FieldValues(f) \ {df[i][f]} :
                \A c \in {Edit(df, i, f, v)} :
                \A K \in {Flipped(held, HoldingRules(c, i))} :
                Cardinality(K) = 1 =>
                   \A after \in {ScoresOf(c)} :
                      /\ \A k \in K :
                            Abs(after[i] - results[i].risk_score) = RulePoints[k]
                      /\ \A j \in 1..Len(df) :
                            j # i => after[j] = results[j].risk_score

\* C6 amended: an edit of one field of one row that flips exactly one of
\* that row's rules changes that row's score by the rule's points, and it
\* changes the score of no other row whose sender's aggregates (outgoing
\* count, outgoing total, incoming count) it leaves unchanged.
C6_RuleIndependenceGivenAggregates ==
    pc = "done" =>
        \A i \in 1..Len(df) : \A held \in {HoldingRules(df, i)} :
            \A f \in Fields : \A v \in FieldValues(f) \ {df[i][f]} :
                \A c \in {Edit(df, i, f, v)} :
                \A K \in {Flipped(held, HoldingRules(c, i))} :
                Cardinality(K) = 1 =>
                   \A after \in {ScoresOf(c)} :
                      /\ \A k \in K :
                            Abs(after[i] - results[i].risk_score) = RulePoints[k]
                      /\ \A j \in 1..Len(df) \ {i} :
                            \/ after[j] = results[j].risk_score
                            \/ ~SameAggregates(df, c, j)

\* an edit of row 1 flips one of its rules, and row 2 keeps its aggregates
C6_Witness ==
    /\ pc = "done"
    /\ Len(df) >= 2
    /\ results[1].risk_score = 100
    /\ \E f \in Fields : \E v \in FieldValues(f) :
          /\ Cardinality(Flipped(HoldingRules(df, 1),
                                  HoldingRules(Edit(df, 1, f, v), 1))) = 1
          /\ SameAggregates(df, Edit(df, 1, f, v), 2)

\* C7: One-Way Money Flow is among a row's rules exactly when no row of the
\* batch, the row itself included, has the row's sender as its receiver.
C7_OneWayMoneyFlow ==
    \A r \in Scored :
        (r.triggered_rules \in Displays(5))
            <=> (\A j \in 1..Len(df) : df[j].receiver # df[r.index].sender)

\* a wallet that pays itself, and a sender absent from incoming_counts
C7_Witness ==
    /\ pc = "done"
    /\ \E i, j \in 1..Len(df) :
          /\ df[i].sender = df[i].receiver
          /\ results[i].triggered_rules \notin Displays(5)
          /\ df[j].sender \notin DOMAIN incoming_counts
          /\ results[j].triggered_rules \in Displays(5)

\* C8 as claimed: a file without rows is scored without an error.
C8_EmptyBatchNoError ==
    (pc # "idle" /\ Len(uploaded_file) = 0) => (pc # "error" /\ error = "")

\* a file has a missing or unparseable amount, timestamp or wallet_age_days
Malformed(file) ==
    \E i \in 1..Len(file) :
        \/ file[i].amount.k \in {"empty", "text"}
        \/ file[i].timestamp.k \in {"empty", "text"}
        \/ file[i].wallet_age_days.k \in {"empty", "text"}

\* C9 as claimed: for a malformed file no table is built and no row is scored.
C9_MalformedBatchRejected ==
    Malformed(uploaded_file) =>
        /\ tx_count = NoDict
        /\ avg_amount = NoDict
        /\ incoming_counts = NoDict
        /\ applied = <<>>
        /\ results = <<>>
        /\ pc # "done"

\* C10: a row whose rules include Sudden Behavior Change has a sender with
\* at least 3 rows, has Burst Transactions among its rules too, and so is
\* never the only rule of a row.
C10_SuddenImpliesBurst ==
    \A r \in Scored :
        r.triggered_rules \in Displays(6) =>
            /\ Cardinality(SentBy(df, df[r.index].sender)) >= 3
            /\ r.triggered_rules \in Displays(2)
            /\ r.triggered_rules # "Sudden Behavior Change"
            /\ r.risk_score >= 30

C10_Witness ==
    /\ pc = "done"
    /\ \E j \in 1..Len(results) :
          /\ results[j].triggered_rules = "Burst Transactions, Sudden Behavior Change"
          /\ results[j].risk_score = 30
====
